---- MODULE Spec2Model ----
(***************************************************************************)
(* Caregivers & children registry (src/app.py): the identity key           *)
(* stable_key, the Excel-backed store (load_data / save_data) and the      *)
(* handlers that write it: the create form, the edit form, the delete tab, *)
(* the CSV / Excel import and the child phone migration; and the list of   *)
(* unverified names (src/unverified_caregivers.py) with its upload, manage *)
(* and verify tabs.  Two browser sessions, each with the frames its script *)
(* run loaded, and reads and writes of the store that fail, are followed   *)
(* in a specification of their own.                                        *)
(*                                                                         *)
(* A Python str is a sequence of one-character strings, so that strip(),   *)
(* lower() and isdigit() are computed and not assumed.  None and NaN are   *)
(* the one-element sequences <<"None">> and <<"NaN">>, which no str of the *)
(* model equals.  A DataFrame is the sequence of its rows.  Of a row only  *)
(* the columns the handlers compare or derive from are kept; the others    *)
(* (gender, age, dates, bank, ..., last_updated) are copied from the input *)
(* to the row and never read back.                                         *)
(***************************************************************************)
EXTENDS Integers, Sequences, FiniteSets, TLC

\* ---------------------------------------------------------------- bounds
MaxCaregivers == 2      \* rows of the caregivers sheet
MaxChildren == 2        \* rows of the children sheet
MaxRandom == 2          \* os.urandom draws in one behaviour
MaxCalls == 3           \* logged stable_key calls in one behaviour
MaxLog == 3             \* handler runs of a session followed step by step
MaxUnverified == 3      \* rows of the unverified_caregivers sheet
MaxClock == 5           \* datetime.now() readings in one behaviour
MaxRuns == 2            \* handler runs of the sessions followed side by side

\* ------------------------------------------------------- Python values
None == <<"None">>
NaN == <<"NaN">>
EmptyStr == <<>>

IsSpace(ch) == ch = " "
IsDigit(ch) == ch \in {"0", "1", "2", "3", "4", "5", "6", "7", "8", "9"}

\* x or ""  (None and "" are falsy, NaN and every other str are truthy)
OrEmpty(x) == IF x = None \/ x = EmptyStr THEN EmptyStr ELSE x

\* str(x)
Str(x) == IF x = NaN THEN <<"n", "a", "n">>
          ELSE IF x = None THEN <<"N", "o", "n", "e">>
          ELSE x

\* pd.isna(x) / pd.notna(x)
IsNa(x) == x = None \/ x = NaN

RECURSIVE LStrip(_)
LStrip(s) == IF s # <<>> /\ IsSpace(Head(s)) THEN LStrip(Tail(s)) ELSE s

RECURSIVE RStrip(_)
RStrip(s) == IF s # <<>> /\ IsSpace(s[Len(s)]) THEN RStrip(SubSeq(s, 1, Len(s) - 1)) ELSE s

\* s.strip()
Strip(s) == RStrip(LStrip(s))

LowerChar(ch) == IF ch = "A" THEN "a" ELSE IF ch = "B" THEN "b" ELSE ch

\* s.lower()
Lower(s) == [i \in 1..Len(s) |-> LowerChar(s[i])]

\* "".join(ch for ch in s if ch.isdigit())
Digits(s) == SelectSeq(s, IsDigit)

RECURSIVE LStripBar(_)
LStripBar(s) == IF s # <<>> /\ Head(s) = "|" THEN LStripBar(Tail(s)) ELSE s

RECURSIVE RStripBar(_)
RStripBar(s) == IF s # <<>> /\ s[Len(s)] = "|" THEN RStripBar(SubSeq(s, 1, Len(s) - 1)) ELSE s

\* s.strip("|")
StripBar(s) == RStripBar(LStripBar(s))

\* --------------------------------------------------------- stable_key
\* os.urandom(16): the n-th draw of a behaviour.  Successive draws are
\* distinct values (a 128-bit draw is taken never to repeat).
urandom_bytes(n) == <<ToString(n)>>

\* sha1(b).hexdigest()[:12], taken as injective on the inputs of the model:
\* the digest of b is b itself, tagged by the source of the bytes.
sha1_of_raw(raw) == [digest |-> "sha1", of |-> raw]
sha1_of_urandom(n) == [digest |-> "urandom", of |-> urandom_bytes(n)]

NormName(name) == Lower(Strip(OrEmpty(name)))
NormPhone(phone) == Digits(OrEmpty(phone))
RawOf(name, phone) == NormName(name) \o <<"|">> \o NormPhone(phone)

\* (variant: the test is on raw, which is never empty)
UsesDigest_raw(raw) == raw # <<>>
\* the test of the conditional expression of stable_key
UsesDigest(raw) == StripBar(raw) # <<>>

\* stable_key(name, phone), n os.urandom draws having been made before
stable_key(name, phone, n) ==
    LET raw == RawOf(name, phone)
    IN  IF UsesDigest(raw) THEN sha1_of_raw(raw) ELSE sha1_of_urandom(n)

\* whether that call draws from os.urandom
DrawsRandom(name, phone) == ~UsesDigest(RawOf(name, phone))

NoKey == [digest |-> "none", of |-> <<>>]

\* ------------------------------------------------------------- state
VARIABLES
    excel_cg,     \* sheet "caregivers" of EXCEL_PATH: rows [caregiver_key, caregiver_name, phone_number]
    excel_ch,     \* sheet "children" of EXCEL_PATH: rows [caregiver_key, caregiver_name, child_name, child_phone_number]
    urandom,      \* number of os.urandom draws made so far
    last,         \* the handler the current script run executed: its inputs and its outcome
    calls,        \* log of the stable_key calls made on their own: [name, phone, key]
    log,          \* the handler runs followed step by step, oldest first
    unverified,   \* sheet "unverified_caregivers" of UNVERIFIED_EXCEL_PATH
    now,          \* datetime.now(): the number of clock readings stamped so far
    mem           \* per browser session: the script run in progress and its cg_df, ch_df

vars == <<excel_cg, excel_ch, urandom, last, calls, log, unverified, now, mem>>

\* op: the handler; kind: what an import took the table for; outcome:
\* "saved" (save_data was called), "rejected" (st.error and st.stop, or the
\* unknown-format message) or "error" (an exception ended the handler);
\* key: the key the handler computed or selected; name, phone: the caregiver
\* name and phone submitted; edited: the rows of the children editor a
\* handler that got past its validation worked on; old_key, old_name,
\* old_phone: the row selected in the edit form; had: the number of child
\* rows the store held under the selected (edit, delete) or computed (create)
\* key when the handler started; columns: the columns of an imported table;
\* fmt, rows: the format and the rows of the table a child import worked on;
\* count: the number a handler reports; before_cg, before_ch, before_unv:
\* the sheets a migration or a handler of the unverified names found when it
\* started; shown: the index of the rows of the unverified
\* names a handler worked on (filtered_df.index, or the idx of an expander)
NoOp == [op |-> "none", kind |-> "none", outcome |-> "none", key |-> NoKey,
         name |-> EmptyStr, phone |-> EmptyStr, edited |-> <<>>,
         old_key |-> NoKey, old_name |-> EmptyStr, old_phone |-> EmptyStr, had |-> 0,
         fmt |-> "none", columns |-> {}, rows |-> <<>>, count |-> 0, shown |-> {},
         before_cg |-> <<>>, before_ch |-> <<>>, before_unv |-> <<>>]

\* ------------------------------------------------------------ inputs
\* what a user can type in the caregiver name and phone text_inputs: no
\* name, a blank identity, one name without and with a phone, a second name
\* with trailing whitespace
CaregiverInputs ==
    { [name |-> <<>>,         phone |-> <<"1">>],
      [name |-> <<" ">>,      phone |-> <<>>],
      [name |-> <<"a">>,      phone |-> <<>>],
      [name |-> <<"a">>,      phone |-> <<"1">>],
      [name |-> <<"b", " ">>, phone |-> <<"1">>] }
\* rows of a children data_editor (None: a cell never filled in)
TemplateRow == [child_name |-> <<>>, child_phone_number |-> None]       \* the row the editor opens with
PhoneOnlyRow == [child_name |-> None, child_phone_number |-> <<"5">>]   \* a phone without a name
\* the children editors submitted
EditorInputs ==
    { <<>>,
      <<TemplateRow>>,
      <<PhoneOnlyRow>>,
      <<[child_name |-> <<"t">>, child_phone_number |-> None]>>,
      <<[child_name |-> <<"t", " ">>, child_phone_number |-> <<" ">>],
        [child_name |-> <<"u">>, child_phone_number |-> <<"5", " ">>]>>,
      <<TemplateRow, [child_name |-> <<"t">>, child_phone_number |-> <<>>]>> }
\* the children editors submitted on the edit form, when the rows shown are
\* not submitted as they are
EditEditorInputs ==
    { <<>>,
      <<PhoneOnlyRow>>,
      <<[child_name |-> <<"t">>, child_phone_number |-> None]>>,
      <<[child_name |-> <<"t", " ">>, child_phone_number |-> <<" ">>],
        [child_name |-> <<"u">>, child_phone_number |-> <<"5", " ">>]>> }

\* ------------------------------------------------- load_data, save_data
\* the texts pd.read_excel takes for a missing value (its default na_values),
\* as far as the values of the model can spell them
NaTexts == {EmptyStr, <<"n", "a", "n">>}
\* a cell as pd.read_excel returns it: an empty cell and a cell that holds
\* one of the NA texts are NaN
ReadCell(x) == IF x \in NaTexts THEN NaN ELSE x
\* a value as to_excel writes it: None, NaN and "" leave the cell empty
WriteCell(x) == IF IsNa(x) THEN EmptyStr ELSE x

load_caregivers(sheet) ==
    [i \in 1..Len(sheet) |->
        [caregiver_key |-> sheet[i].caregiver_key,
         caregiver_name |-> ReadCell(sheet[i].caregiver_name),
         phone_number |-> ReadCell(sheet[i].phone_number)]]

load_children(sheet) ==
    [i \in 1..Len(sheet) |->
        [caregiver_key |-> sheet[i].caregiver_key,
         caregiver_name |-> ReadCell(sheet[i].caregiver_name),
         child_name |-> ReadCell(sheet[i].child_name),
         child_phone_number |-> ReadCell(sheet[i].child_phone_number)]]

write_caregivers(cg_df) ==
    [i \in 1..Len(cg_df) |->
        [caregiver_key |-> cg_df[i].caregiver_key,
         caregiver_name |-> WriteCell(cg_df[i].caregiver_name),
         phone_number |-> WriteCell(cg_df[i].phone_number)]]

write_children(ch_df) ==
    [i \in 1..Len(ch_df) |->
        [caregiver_key |-> ch_df[i].caregiver_key,
         caregiver_name |-> WriteCell(ch_df[i].caregiver_name),
         child_name |-> WriteCell(ch_df[i].child_name),
         child_phone_number |-> WriteCell(ch_df[i].child_phone_number)]]

\* save_data(cg_df, ch_df): both sheets are written by the one ExcelWriter
save_data(cg_df, ch_df) ==
    /\ excel_cg' = write_caregivers(cg_df)
    /\ excel_ch' = write_children(ch_df)

\* the sheets fit the bounds of the model
Fits(cg_df, ch_df) == Len(cg_df) <= MaxCaregivers /\ Len(ch_df) <= MaxChildren

\* df[df["caregiver_key"] != key]
WithoutKey(df, key) == LET Keep(r) == r.caregiver_key # key IN SelectSeq(df, Keep)
\* df[df["caregiver_key"] == key]
WithKey(df, key) == LET Keep(r) == r.caregiver_key = key IN SelectSeq(df, Keep)

\* --------------------------------------------------------- create form
\* name / phone of an editor row as the validation and the row loops read them
RowName(r) == Strip(Str(OrEmpty(r.child_name)))
RowPhone(r) == Strip(Str(OrEmpty(r.child_phone_number)))

\* missing_child_names is non-empty: a row without a name but with a phone
create_missing_child_names(edited) ==
    \E i \in 1..Len(edited) : RowName(edited[i]) = <<>> /\ RowPhone(edited[i]) # <<>>

\* (variant: the child phone as the edit form takes it, without the fallback)
create_child_phone_own(r, c_phone) == Strip(Str(OrEmpty(r.child_phone_number)))
\* the child phone of the create form: the caregiver's phone when blank
create_child_phone(r, c_phone) ==
    IF IsNa(r.child_phone_number) \/ Strip(Str(r.child_phone_number)) = <<>>
    THEN Strip(c_phone)
    ELSE Strip(Str(r.child_phone_number))

create_children_rows(edited, key, c_name, c_phone) ==
    LET Named(r) == RowName(r) # <<>>
        kept == SelectSeq(edited, Named)
    IN  [i \in 1..Len(kept) |->
            [caregiver_key |-> key,
             caregiver_name |-> Strip(c_name),
             child_name |-> RowName(kept[i]),
             child_phone_number |-> create_child_phone(kept[i], c_phone)]]

\* (variant: the concat without the removal)
create_append_children(ch_df, key, children_rows) == ch_df \o children_rows
\* ch_df = ch_df[ch_df["caregiver_key"] != key], then the concat of children_rows
create_replace_children(ch_df, key, children_rows) == WithoutKey(ch_df, key) \o children_rows

\* if submitted: ... (the "Save / Update Caregiver" button of caregiver_form)
CreateFormSubmit(c_name, c_phone, edited) ==
    LET cg_df == load_caregivers(excel_cg)
        ch_df == load_children(excel_ch)
        key == stable_key(c_name, c_phone, urandom)
        new_row == [caregiver_key |-> key, caregiver_name |-> Strip(c_name),
                    phone_number |-> Strip(c_phone)]
        cg_new == WithoutKey(cg_df, key) \o <<new_row>>
        children_rows == create_children_rows(edited, key, c_name, c_phone)
        ch_new == create_replace_children(ch_df, key, children_rows)
        rec == [NoOp EXCEPT !.op = "create", !.name = c_name, !.phone = c_phone]
    IN  /\ last = NoOp
        /\ IF c_name = <<>> \/ create_missing_child_names(edited)
           THEN \* st.error(...); st.stop()
             /\ last' = [rec EXCEPT !.outcome = "rejected"]
             /\ UNCHANGED <<excel_cg, excel_ch, urandom, calls>>
           ELSE
             /\ Fits(cg_new, ch_new)
             /\ DrawsRandom(c_name, c_phone) => urandom < MaxRandom
             /\ urandom' = IF DrawsRandom(c_name, c_phone) THEN urandom + 1 ELSE urandom
             /\ save_data(cg_new, ch_new)
             /\ last' = [rec EXCEPT !.outcome = "saved", !.key = key, !.edited = edited,
                                    !.had = Len(WithKey(ch_df, key))]
             /\ UNCHANGED calls

\* ----------------------------------------------------------- edit form
\* cg_df["caregiver_name"].tolist(), the options of the two selectboxes,
\* without the NaN names (those match no row and cannot be worked on)
caregiver_options(cg_df) == {cg_df[i].caregiver_name : i \in 1..Len(cg_df)} \ {NaN}

\* cg_df[cg_df["caregiver_name"] == name]
WithName(cg_df, name) == LET Keep(r) == r.caregiver_name = name IN SelectSeq(cg_df, Keep)

\* children_edit_data: the rows the children editor of the edit form opens with
children_edit_data(caregiver_children) ==
    [i \in 1..Len(caregiver_children) |->
        [child_name |-> caregiver_children[i].child_name,
         child_phone_number |-> Str(WriteCell(caregiver_children[i].child_phone_number))]]

edit_children_rows(edited_children, new_key, edit_name) ==
    LET Named(r) == RowName(r) # <<>>
        kept == SelectSeq(edited_children, Named)
    IN  [i \in 1..Len(kept) |->
            [caregiver_key |-> new_key,
             caregiver_name |-> Strip(edit_name),
             child_name |-> RowName(kept[i]),
             child_phone_number |-> RowPhone(kept[i])]]

\* if update_submitted: ... (the "Update Caregiver" button of edit_caregiver_form)
\* as_shown: the children editor is submitted as it opened; otherwise its
\* rows are the rows typed
EditFormUpdate(selected_caregiver, edit_name, edit_phone, as_shown, typed) ==
    LET cg_df == load_caregivers(excel_cg)
        ch_df == load_children(excel_ch)
        caregiver_data == Head(WithName(cg_df, selected_caregiver))
        caregiver_key == caregiver_data.caregiver_key
        caregiver_children == WithKey(ch_df, caregiver_key)
        edited_children == IF as_shown THEN children_edit_data(caregiver_children) ELSE typed
        changed == edit_name # caregiver_data.caregiver_name
                   \/ edit_phone # caregiver_data.phone_number
        new_key == IF changed THEN stable_key(edit_name, edit_phone, urandom) ELSE caregiver_key
        draws == changed /\ DrawsRandom(edit_name, edit_phone)
        cg_removed == IF changed THEN WithoutKey(cg_df, caregiver_key) ELSE WithoutKey(cg_df, new_key)
        ch_removed == IF changed THEN WithoutKey(ch_df, caregiver_key) ELSE ch_df
        updated_caregiver == [caregiver_key |-> new_key, caregiver_name |-> Strip(edit_name),
                              phone_number |-> Strip(edit_phone)]
        cg_new == cg_removed \o <<updated_caregiver>>
        ch_new == ch_removed \o edit_children_rows(edited_children, new_key, edit_name)
        rec == [NoOp EXCEPT !.op = "edit", !.name = edit_name, !.phone = edit_phone,
                            !.old_key = caregiver_key,
                            !.old_name = caregiver_data.caregiver_name,
                            !.old_phone = caregiver_data.phone_number]
    IN  /\ last = NoOp
        /\ selected_caregiver \in caregiver_options(cg_df)
        /\ as_shown => typed = <<>>
        /\ Len(caregiver_children) = 0 => ~as_shown /\ typed = <<>>   \* no editor is shown
        /\ IF edit_name = <<>>
           THEN \* st.error("Caregiver Name is required."); st.stop()
             /\ last' = [rec EXCEPT !.outcome = "rejected"]
             /\ UNCHANGED <<excel_cg, excel_ch, urandom, calls>>
           ELSE IF Len(caregiver_children) = 0
           THEN \* edited_children was never assigned: NameError at the validation loop
             /\ last' = [rec EXCEPT !.outcome = "error"]
             /\ UNCHANGED <<excel_cg, excel_ch, urandom, calls>>
           ELSE
             /\ Fits(cg_new, ch_new)
             /\ draws => urandom < MaxRandom
             /\ urandom' = IF draws THEN urandom + 1 ELSE urandom
             /\ save_data(cg_new, ch_new)
             /\ last' = [rec EXCEPT !.outcome = "saved", !.key = new_key,
                                    !.edited = edited_children,
                                    !.had = Len(caregiver_children)]
             /\ UNCHANGED calls

\* ---------------------------------------------------------- delete tab
\* (variant: only the first row of the key is dropped)
delete_caregiver_rows_first(cg_df, caregiver_key) ==
    LET hit == {i \in 1..Len(cg_df) : cg_df[i].caregiver_key = caregiver_key}
        first == CHOOSE i \in hit : \A j \in hit : i <= j
    IN  IF hit = {} THEN cg_df
        ELSE SubSeq(cg_df, 1, first - 1) \o SubSeq(cg_df, first + 1, Len(cg_df))
\* cg_df = cg_df[cg_df["caregiver_key"] != caregiver_key]
delete_caregiver_rows(cg_df, caregiver_key) == WithoutKey(cg_df, caregiver_key)
\* (variant: the children are left in place)
delete_child_rows_keep(ch_df, caregiver_key) == ch_df
\* ch_df = ch_df[ch_df["caregiver_key"] != caregiver_key]
delete_child_rows(ch_df, caregiver_key) == WithoutKey(ch_df, caregiver_key)

\* if st.button("Confirm Delete"): ...
DeleteConfirm(delete_caregiver) ==
    LET cg_df == load_caregivers(excel_cg)
        ch_df == load_children(excel_ch)
        caregiver_key == Head(WithName(cg_df, delete_caregiver)).caregiver_key
    IN  /\ last = NoOp
        /\ delete_caregiver \in caregiver_options(cg_df)
        /\ save_data(delete_caregiver_rows(cg_df, caregiver_key),
                     delete_child_rows(ch_df, caregiver_key))
        /\ last' = [NoOp EXCEPT !.op = "delete", !.outcome = "saved", !.key = caregiver_key,
                                !.name = delete_caregiver,
                                !.had = Len(WithKey(ch_df, caregiver_key))]
        /\ UNCHANGED <<urandom, calls>>

\* -------------------------------------------------------------- import
\* An uploaded table: its column names and its rows as pandas parsed them
\* (an empty cell is NaN).  row.get(col) is None for a column the table lacks.
ImportColumnSets ==
    { {"caregiver_name", "phone_number"},                                      \* a caregivers table
      {"caregiver_key", "caregiver_name", "phone_number"},                     \* the caregivers export
      {"caregiver_name", "child_name", "child_phone_number"},                  \* a children table
      {"caregiver_key", "caregiver_name", "child_name", "child_phone_number"}, \* the children export
      {"phone_number"} }
RowA == [caregiver_name |-> <<"a">>, phone_number |-> <<"1">>,
         child_name |-> <<"u">>, child_phone_number |-> <<"5">>]
RowB == [caregiver_name |-> <<"b">>, phone_number |-> NaN,
         child_name |-> <<"u">>, child_phone_number |-> <<"5">>]
\* the row lists imported
ImportInputs == { <<>>, <<RowA>>, <<RowB, RowA>> }

Get(row, col, columns) == IF col \in columns THEN row[col] ELSE None
\* str(row.get(col) or "").strip()
Field(row, col, columns) == Strip(Str(OrEmpty(Get(row, col, columns))))

\* the loop over the rows of a caregivers table; n counts the os.urandom draws
RECURSIVE import_caregiver_rows(_, _, _, _)
import_caregiver_rows(rows, columns, cg_df, n) ==
    IF rows = <<>> THEN [cg_df |-> cg_df, urandom |-> n]
    ELSE LET row == Head(rows)
             name == Field(row, "caregiver_name", columns)
             phone == Field(row, "phone_number", columns)
             key == stable_key(name, phone, n)
             new_row == [caregiver_key |-> key, caregiver_name |-> name, phone_number |-> phone]
         IN  IF name = <<>>
             THEN import_caregiver_rows(Tail(rows), columns, cg_df, n)
             ELSE import_caregiver_rows(Tail(rows), columns,
                                        WithoutKey(cg_df, key) \o <<new_row>>,
                                        IF DrawsRandom(name, phone) THEN n + 1 ELSE n)

\* ch_df[~((ch_df["caregiver_key"] == caregiver_key) & (ch_df["child_name"] == name))]
WithoutChild(ch_df, caregiver_key, name) ==
    LET Keep(r) == ~(r.caregiver_key = caregiver_key /\ r.child_name = name)
    IN  SelectSeq(ch_df, Keep)

\* the loop over the rows of a children table.  In the Excel branch the name
\* child_phone is never assigned: building new_child raises NameError.
RECURSIVE import_child_rows(_, _, _, _, _)
import_child_rows(rows, columns, cg_df, ch_df, fmt) ==
    IF rows = <<>> THEN [ch_df |-> ch_df, raised |-> FALSE]
    ELSE LET row == Head(rows)
             name == Field(row, "child_name", columns)
             caregiver_name == Field(row, "caregiver_name", columns)
             caregiver_row == WithName(cg_df, caregiver_name)
             caregiver_key == Head(caregiver_row).caregiver_key
             new_child == [caregiver_key |-> caregiver_key,
                           caregiver_name |-> caregiver_name,
                           child_name |-> name,
                           child_phone_number |-> Field(row, "child_phone_number", columns)]
         IN  IF name = <<>> \/ caregiver_row = <<>>
             THEN import_child_rows(Tail(rows), columns, cg_df, ch_df, fmt)
             ELSE IF fmt = "xlsx"
             THEN [ch_df |-> ch_df, raised |-> TRUE]
             ELSE import_child_rows(Tail(rows), columns, cg_df,
                                    WithoutChild(ch_df, caregiver_key, name) \o <<new_child>>, fmt)

\* if st.button("Confirm Import"): ... of the CSV (fmt = "csv") and of the
\* Excel (fmt = "xlsx") branch
ImportConfirm(fmt, columns, rows) ==
    LET cg_df == load_caregivers(excel_cg)
        ch_df == load_children(excel_ch)
        is_caregiver_data == "caregiver_name" \in columns /\ "caregiver_key" \notin columns
        is_child_data == "child_name" \in columns
        cgs == import_caregiver_rows(rows, columns, cg_df, urandom)
        chs == import_child_rows(rows, columns, cg_df, ch_df, fmt)
        rec == [NoOp EXCEPT !.op = "import", !.columns = columns]
        child_rec == [rec EXCEPT !.kind = "children", !.fmt = fmt, !.rows = rows]
    IN  /\ last = NoOp
        /\ IF is_caregiver_data
           THEN /\ Fits(cgs.cg_df, ch_df)
                /\ cgs.urandom <= MaxRandom
                /\ urandom' = cgs.urandom
                /\ save_data(cgs.cg_df, ch_df)
                /\ last' = [rec EXCEPT !.outcome = "saved", !.kind = "caregivers"]
           ELSE IF is_child_data
           THEN IF chs.raised
                THEN \* except Exception: st.error("Error importing file: ...")
                     /\ last' = [child_rec EXCEPT !.outcome = "error"]
                     /\ UNCHANGED <<excel_cg, excel_ch, urandom>>
                ELSE /\ Fits(cg_df, chs.ch_df)
                     /\ save_data(cg_df, chs.ch_df)
                     /\ last' = [child_rec EXCEPT !.outcome = "saved"]
                     /\ UNCHANGED urandom
           ELSE \* st.error("Unknown data format. ...")
                /\ last' = [rec EXCEPT !.outcome = "rejected"]
                /\ UNCHANGED <<excel_cg, excel_ch, urandom>>
        /\ UNCHANGED calls

\* ----------------------------------------- migrate_child_phone_numbers
\* bool(x) of a cell value: None and "" are falsy, NaN and every other str
\* are truthy
Truthy(x) == x # None /\ x # EmptyStr

\* caregiver_key in caregiver_phones
InCaregiverPhones(cg_df, key) == \E j \in 1..Len(cg_df) : cg_df[j].caregiver_key = key
\* caregiver_phones[key] of dict(zip(cg_df['caregiver_key'], cg_df['phone_number'])):
\* the phone of the last row of that key
caregiver_phones(cg_df, key) ==
    LET hit == {j \in 1..Len(cg_df) : cg_df[j].caregiver_key = key}
        j == CHOOSE j \in hit : \A h \in hit : h <= j
    IN  cg_df[j].phone_number

\* (variant: the child's own phone is not looked at)
migrate_child_is_blank_any(child_phone) == TRUE
\* pd.isna(child_phone) or str(child_phone).strip() == ""
migrate_child_is_blank(child_phone) == IsNa(child_phone) \/ Strip(Str(child_phone)) = <<>>

\* the two tests of the loop body: the row is given its caregiver's phone
migrate_updates(cg_df, row) ==
    /\ migrate_child_is_blank(row.child_phone_number)
    /\ InCaregiverPhones(cg_df, row.caregiver_key)
    /\ LET caregiver_phone == caregiver_phones(cg_df, row.caregiver_key)
       IN  Truthy(caregiver_phone) /\ Strip(Str(caregiver_phone)) # <<>>

\* ch_df after the loop
migrate_rows(cg_df, ch_df) ==
    [i \in 1..Len(ch_df) |->
        IF migrate_updates(cg_df, ch_df[i])
        THEN [ch_df[i] EXCEPT !.child_phone_number =
                  Strip(Str(caregiver_phones(cg_df, ch_df[i].caregiver_key)))]
        ELSE ch_df[i]]

updated_count(cg_df, ch_df) ==
    Cardinality({i \in 1..Len(ch_df) : migrate_updates(cg_df, ch_df[i])})

\* if st.button("Migrate Child Phone Numbers"): migrate_child_phone_numbers()
MigrateClick ==
    LET cg_df == load_caregivers(excel_cg)
        ch_df == load_children(excel_ch)
        count == updated_count(cg_df, ch_df)
        rec == [NoOp EXCEPT !.op = "migrate", !.count = count,
                            !.before_cg = excel_cg, !.before_ch = excel_ch]
    IN  /\ last = NoOp
        /\ IF count > 0
           THEN /\ save_data(cg_df, migrate_rows(cg_df, ch_df))
                /\ last' = [rec EXCEPT !.outcome = "saved"]
           ELSE \* return 0: st.info("No child phone numbers needed updating.")
                /\ last' = [rec EXCEPT !.outcome = "unchanged"]
                /\ UNCHANGED <<excel_cg, excel_ch>>
        /\ UNCHANGED <<urandom, calls>>

\* the browser sessions followed side by side; what a handler of a session
\* was given, what it told the user and the sheets it found when it saved;
\* a session without a script run in progress
Sessions == {1, 2}
NoEntry == [op |-> "none", reported |-> "none", saving |-> FALSE, write_ok |-> TRUE,
            key |-> NoKey, name |-> EmptyStr, phone |-> EmptyStr, edited |-> <<>>,
            before_cg |-> <<>>, before_ch |-> <<>>]
NoRun == [run |-> "none", read_ok |-> TRUE, cg_df |-> <<>>, ch_df |-> <<>>,
          base_cg |-> <<>>, base_ch |-> <<>>, entry |-> NoEntry]

\* st.rerun(): the script starts over; the locals of the run that handled the
\* last submission are gone and the next submission can be handled
Rerun ==
    /\ last # NoOp
    /\ last' = NoOp
    /\ UNCHANGED <<excel_cg, excel_ch, urandom, calls>>

Init ==
    /\ excel_cg = <<>>
    /\ excel_ch = <<>>
    /\ urandom = 0
    /\ last = NoOp
    /\ calls = <<>>
    /\ log = <<>>
    /\ unverified = <<>>
    /\ now = 0
    /\ mem = [s \in Sessions |-> NoRun]

\* a handler runs when the script is idle (no submission is being shown)
Idle == last = NoOp

Next ==
    \/ /\ Idle
       /\ \E c \in CaregiverInputs, edited \in EditorInputs :
            CreateFormSubmit(c.name, c.phone, edited)
       /\ UNCHANGED <<log, unverified, now, mem>>
    \/ /\ Idle
       /\ \E selected_caregiver \in caregiver_options(load_caregivers(excel_cg)),
             c \in CaregiverInputs, as_shown \in BOOLEAN, typed \in EditEditorInputs :
            EditFormUpdate(selected_caregiver, c.name, c.phone, as_shown, typed)
       /\ UNCHANGED <<log, unverified, now, mem>>
    \/ /\ Idle
       /\ \E delete_caregiver \in caregiver_options(load_caregivers(excel_cg)) :
            DeleteConfirm(delete_caregiver)
       /\ UNCHANGED <<log, unverified, now, mem>>
    \/ /\ Idle
       /\ \E fmt \in {"csv", "xlsx"}, columns \in ImportColumnSets, rows \in ImportInputs :
            ImportConfirm(fmt, columns, rows)
       /\ UNCHANGED <<log, unverified, now, mem>>
    \/ Rerun /\ UNCHANGED <<log, unverified, now, mem>>

Spec == Init /\ [][Next]_vars

\* ------------------------------- imports with an empty child_name cell
\* a row of a children table whose child_name cell is empty (NaN as parsed)
RowC == [caregiver_name |-> <<"a">>, phone_number |-> <<"1">>,
         child_name |-> NaN, child_phone_number |-> <<"5">>]
UnnamedImportInputs == { <<RowC>> }

\* the handlers of Next, the import also given tables with such a row
NextImport ==
    \/ Next
    \/ /\ Idle
       /\ \E fmt \in {"csv", "xlsx"}, columns \in ImportColumnSets, rows \in UnnamedImportInputs :
            ImportConfirm(fmt, columns, rows)
       /\ UNCHANGED <<log, unverified, now, mem>>

SpecImport == Init /\ [][NextImport]_vars

\* ------------------------- create form with a name made of the separator
PipeCaregiverInputs == { [name |-> <<"|">>, phone |-> <<>>] }

NextPipe ==
    \/ Next
    \/ /\ Idle
       /\ \E c \in PipeCaregiverInputs : CreateFormSubmit(c.name, c.phone, <<>>)
       /\ UNCHANGED <<log, unverified, now, mem>>

SpecPipe == Init /\ [][NextPipe]_vars

\* ------------------------------------------- stable_key on its own
\* names and phones stable_key is called with
KeyNameInputs == {<<>>, <<" ", "a">>, <<"A">>, <<"|">>, <<"a", "|">>, <<"b">>}
KeyPhoneInputs == {<<>>, <<"-">>, <<"1">>, <<"1", "-">>}

\* one call of stable_key(name, phone); the call and its result are logged
StableKeyCall(name, phone) ==
    /\ Len(calls) < MaxCalls
    /\ DrawsRandom(name, phone) => urandom < MaxRandom
    /\ urandom' = IF DrawsRandom(name, phone) THEN urandom + 1 ELSE urandom
    /\ calls' = Append(calls, [name |-> name, phone |-> phone,
                               key |-> stable_key(name, phone, urandom)])
    /\ UNCHANGED <<excel_cg, excel_ch, last>>

NextKey ==
    /\ \E name \in KeyNameInputs, phone \in KeyPhoneInputs : StableKeyCall(name, phone)
    /\ UNCHANGED <<log, unverified, now, mem>>

SpecKey == Init /\ [][NextKey]_vars

\* --------------------------------------- the migration on its own
\* The migration button pressed on a store the handlers have left behind:
\* caregivers without and with a phone, children without and with a phone
\* of their own.
SeqsUpTo(S, n) == UNION {[1..k -> S] : k \in 0..n}

StoredCaregiver(name, phone) ==
    [caregiver_key |-> stable_key(name, phone, 0), caregiver_name |-> name,
     phone_number |-> phone]
StoredChild(caregiver, name, phone) ==
    [caregiver_key |-> caregiver.caregiver_key, caregiver_name |-> caregiver.caregiver_name,
     child_name |-> name, child_phone_number |-> phone]

StoredCaregivers ==
    { StoredCaregiver(<<"a">>, <<>>), StoredCaregiver(<<"a">>, <<"1">>),
      StoredCaregiver(<<"b">>, <<"2">>) }
StoredChildPhones == {<<>>, <<"5">>}

\* sheets with one caregiver row per key and no child row without caregiver
CaregiverSheets ==
    {s \in SeqsUpTo(StoredCaregivers, MaxCaregivers) :
        \A i, j \in 1..Len(s) : s[i].caregiver_key = s[j].caregiver_key => i = j}
ChildSheets(cg_sheet) ==
    SeqsUpTo({StoredChild(cg_sheet[j], <<"t">>, p) : j \in 1..Len(cg_sheet), p \in StoredChildPhones},
             MaxChildren)

InitMigrate ==
    /\ excel_cg \in CaregiverSheets
    /\ excel_ch \in ChildSheets(excel_cg)
    /\ urandom = 0
    /\ last = NoOp
    /\ calls = <<>>
    /\ log = <<>>
    /\ unverified = <<>>
    /\ now = 0
    /\ mem = [s \in Sessions |-> NoRun]

\* a handler run that is followed: its record is appended to the log
Followed == Len(log) < MaxLog /\ log' = Append(log, last')

NextMigrate ==
    \/ /\ Idle
       /\ MigrateClick
       /\ Followed
       /\ UNCHANGED <<unverified, now, mem>>
    \/ Rerun /\ UNCHANGED <<log, unverified, now, mem>>

SpecMigrate == InitMigrate /\ [][NextMigrate]_vars

\* ------------------------------------ one caregiver saved and re-saved
\* A session that works on one caregiver ("a") with two phones and one child
\* ("t") whose phone is left blank, through the create form, the edit form
\* and the migration button.
ScenarioCaregiverInputs ==
    { [name |-> <<"a">>, phone |-> <<"1">>], [name |-> <<"a">>, phone |-> <<"2">>] }
ScenarioEditorInputs ==
    { <<>>, <<[child_name |-> <<"t">>, child_phone_number |-> <<>>]>> }

NextScenario ==
    \/ /\ Idle
       /\ \E c \in ScenarioCaregiverInputs, edited \in ScenarioEditorInputs :
            CreateFormSubmit(c.name, c.phone, edited)
       /\ Followed
       /\ UNCHANGED <<unverified, now, mem>>
    \/ /\ Idle
       /\ \E selected_caregiver \in caregiver_options(load_caregivers(excel_cg)),
             c \in ScenarioCaregiverInputs, as_shown \in BOOLEAN, typed \in ScenarioEditorInputs :
            EditFormUpdate(selected_caregiver, c.name, c.phone, as_shown, typed)
       /\ Followed
       /\ UNCHANGED <<unverified, now, mem>>
    \/ /\ Idle
       /\ MigrateClick
       /\ Followed
       /\ UNCHANGED <<unverified, now, mem>>
    \/ Rerun /\ UNCHANGED <<log, unverified, now, mem>>

SpecScenario == Init /\ [][NextScenario]_vars

\* --------------------------- unverified names (unverified_caregivers.py)
\* Rows of the sheet: [unverified_id, name, status, upload_date, notes,
\* verified_date, verified_by].  status is one of the three literals the
\* handlers write; the labels and the notes are strs no handler takes apart,
\* kept as one-element sequences.
ManualVerification == <<"Manual Verification">>
BulkAction == <<"Bulk Action">>
UploadedFrom == <<"Uploaded from names.csv">>

\* datetime.now().isoformat(), for the n-th reading of the clock: successive
\* readings are distinct and increasing
isoformat(n) == <<ToString(n)>>

\* generate_unverified_id(name), its clock reading being the n-th
generate_unverified_id(name, n) ==
    sha1_of_raw(Lower(Strip(name)) \o <<"|">> \o isoformat(n))

\* pd.read_excel on the sheet, then df[UNVERIFIED_COLS]
load_unverified_data(sheet) ==
    [i \in 1..Len(sheet) |->
        [sheet[i] EXCEPT !.name = ReadCell(@), !.upload_date = ReadCell(@),
                         !.notes = ReadCell(@), !.verified_date = ReadCell(@),
                         !.verified_by = ReadCell(@)]]

\* df.to_excel
write_unverified(df) ==
    [i \in 1..Len(df) |->
        [df[i] EXCEPT !.name = WriteCell(@), !.upload_date = WriteCell(@),
                      !.notes = WriteCell(@), !.verified_date = WriteCell(@),
                      !.verified_by = WriteCell(@)]]

save_unverified_data(df) == unverified' = write_unverified(df)

\* whether the .str accessor works on the name column: read_excel gives an
\* object column for a sheet without rows and for a column with a text in it,
\* and a float64 column when every cell of a non-empty column is empty
NameIsStr(df) == df = <<>> \/ \E i \in 1..Len(df) : ~IsNa(df[i].name)

\* the names_preview a user can upload: the distinct non-null cells of the
\* selected column, in file order
UploadInputs ==
    { << <<"A">> >>,
      << <<"a", " ">>, <<"b">> >>,
      << <<"A">>, <<"a", " ">>, <<"b">> >>,
      << <<" ">> >> }

\* if name and str(name).strip()
upload_name_is_kept(name) == Truthy(name) /\ Strip(Str(name)) # <<>>

\* (variant: the comparison is case-sensitive)
upload_already_exists_same_case(unverified_df, clean_name) ==
    \E i \in 1..Len(unverified_df) :
        /\ ~IsNa(unverified_df[i].name)
        /\ unverified_df[i].name = clean_name
\* not unverified_df[unverified_df['name'].str.lower() == clean_name.lower()].empty
upload_already_exists(unverified_df, clean_name) ==
    \E i \in 1..Len(unverified_df) :
        /\ ~IsNa(unverified_df[i].name)
        /\ Lower(unverified_df[i].name) = Lower(clean_name)

new_record(clean_name, upload_now, n) ==
    [unverified_id |-> generate_unverified_id(clean_name, n),
     name |-> clean_name,
     status |-> "pending",
     upload_date |-> upload_now,
     notes |-> UploadedFrom,
     verified_date |-> None,
     verified_by |-> None]

\* the loop over names_preview, n clock readings having been made before
RECURSIVE new_records(_, _, _, _)
new_records(unverified_df, names, upload_now, n) ==
    IF names = <<>> THEN <<>>
    ELSE LET name == Head(names)
             clean_name == Strip(Str(name))
         IN  IF upload_name_is_kept(name) /\ ~upload_already_exists(unverified_df, clean_name)
             THEN <<new_record(clean_name, upload_now, n + 1)>>
                  \o new_records(unverified_df, Tail(names), upload_now, n + 1)
             ELSE new_records(unverified_df, Tail(names), upload_now, n)

\* the button "Add to Unverified List"
AddToUnverifiedList(names_preview) ==
    LET unverified_df == load_unverified_data(unverified)
        rec == [NoOp EXCEPT !.op = "upload", !.rows = names_preview,
                            !.before_unv = unverified]
        compares == \E i \in 1..Len(names_preview) : upload_name_is_kept(names_preview[i])
    IN  IF compares /\ ~NameIsStr(unverified_df)
        THEN /\ now + 1 <= MaxClock
             /\ now' = now + 1
             /\ last' = [rec EXCEPT !.outcome = "error"]
             /\ UNCHANGED unverified
        ELSE LET recs == new_records(unverified_df, names_preview, isoformat(now + 1), now + 1)
             IN  /\ Len(unverified_df) + Len(recs) <= MaxUnverified
                 /\ now + 1 + Len(recs) <= MaxClock
                 /\ now' = now + 1 + Len(recs)
                 /\ IF recs # <<>>
                    THEN /\ save_unverified_data(unverified_df \o recs)
                         /\ last' = [rec EXCEPT !.outcome = "saved", !.count = Len(recs)]
                    ELSE /\ UNCHANGED unverified
                         /\ last' = [rec EXCEPT !.outcome = "unchanged"]

\* the manage tab: the status selectbox and the name search
StatusFilters == {"All", "pending", "verified", "rejected"}
SearchInputs == { <<>>, <<"a">> }
Statuses == {"pending", "verified", "rejected"}

\* str.contains(search_name, case=False, na=False), for a search without
\* regular-expression characters
Contains(s, sub) ==
    \E i \in 0..(Len(s) - Len(sub)) : Lower(SubSeq(s, i + 1, i + Len(sub))) = Lower(sub)

\* filtered_df.index
filtered_index(unverified_df, status_filter, search_name) ==
    { i \in 1..Len(unverified_df) :
        /\ status_filter = "All" \/ unverified_df[i].status = status_filter
        /\ search_name = <<>>
           \/ (~IsNa(unverified_df[i].name) /\ Contains(unverified_df[i].name, search_name)) }

\* whether the manage tab gets to show the editor and the bulk buttons
ManageShown(unverified_df, status_filter, search_name) ==
    /\ unverified_df # <<>>
    /\ search_name # <<>> => NameIsStr(unverified_df)
    /\ filtered_index(unverified_df, status_filter, search_name) # {}

\* the rows of df whose index is in idx, in index order, from row k on
RECURSIVE RowsAt(_, _, _)
RowsAt(df, idx, k) ==
    IF k > Len(df) THEN <<>>
    ELSE (IF k \in idx THEN <<df[k]>> ELSE <<>>) \o RowsAt(df, idx, k + 1)

\* what the user can do to one row of the data editor: pick a status, and
\* leave the name or clear it
EditorNameEdits == {"keep", "clear"}
edited_row(row, status, name_edit) ==
    [row EXCEPT !.status = status,
                !.name = IF name_edit = "clear" THEN None ELSE @]

\* the loop of "Save Changes": each edited row replaces the first row of
\* unverified_df with its unverified_id
RECURSIVE save_changes_rows(_, _)
save_changes_rows(unverified_df, edited_df) ==
    IF edited_df = <<>> THEN unverified_df
    ELSE LET row == Head(edited_df)
             original_idx == { k \in 1..Len(unverified_df) :
                                 unverified_df[k].unverified_id = row.unverified_id }
             first == CHOOSE k \in original_idx : \A j \in original_idx : k <= j
         IN  save_changes_rows(
                 IF original_idx # {} THEN [unverified_df EXCEPT ![first] = row]
                                      ELSE unverified_df,
                 Tail(edited_df))

\* the button "Save Changes", row i of the editor having been edited
SaveChanges(status_filter, search_name, i, status, name_edit) ==
    LET unverified_df == load_unverified_data(unverified)
        idx == filtered_index(unverified_df, status_filter, search_name)
        edited_df == RowsAt([unverified_df EXCEPT ![i] = edited_row(@, status, name_edit)], idx, 1)
    IN  /\ ManageShown(unverified_df, status_filter, search_name)
        /\ i \in idx
        /\ save_unverified_data(save_changes_rows(unverified_df, edited_df))
        /\ last' = [NoOp EXCEPT !.op = "save_changes", !.outcome = "saved",
                                !.shown = idx, !.edited = edited_df,
                                !.before_unv = unverified]
        /\ UNCHANGED now

\* the loops of "Mark All Filtered as Verified / Rejected": the rows of idx
\* from row k on, n clock readings having been made before
RECURSIVE bulk_mark_rows(_, _, _, _, _)
bulk_mark_rows(unverified_df, idx, status, k, n) ==
    IF k > Len(unverified_df) THEN unverified_df
    ELSE IF k \in idx
         THEN bulk_mark_rows([unverified_df EXCEPT ![k].status = status,
                                                   ![k].verified_date = isoformat(n + 1),
                                                   ![k].verified_by = BulkAction],
                             idx, status, k + 1, n + 1)
         ELSE bulk_mark_rows(unverified_df, idx, status, k + 1, n)

\* the buttons "Mark All Filtered as Verified" and "Mark All Filtered as Rejected"
BulkMark(status_filter, search_name, status) ==
    LET unverified_df == load_unverified_data(unverified)
        idx == filtered_index(unverified_df, status_filter, search_name)
    IN  /\ ManageShown(unverified_df, status_filter, search_name)
        /\ now + Cardinality(idx) <= MaxClock
        /\ now' = now + Cardinality(idx)
        /\ save_unverified_data(bulk_mark_rows(unverified_df, idx, status, 1, now))
        /\ last' = [NoOp EXCEPT !.op = IF status = "verified" THEN "bulk_verified"
                                                              ELSE "bulk_rejected",
                                !.outcome = "saved", !.shown = idx,
                                !.before_unv = unverified]

\* the button "Delete All Filtered"
DeleteAllFiltered(status_filter, search_name) ==
    LET unverified_df == load_unverified_data(unverified)
        idx == filtered_index(unverified_df, status_filter, search_name)
    IN  /\ ManageShown(unverified_df, status_filter, search_name)
        /\ save_unverified_data(RowsAt(unverified_df, (1..Len(unverified_df)) \ idx, 1))
        /\ last' = [NoOp EXCEPT !.op = "bulk_delete", !.outcome = "saved",
                                !.shown = idx, !.before_unv = unverified]
        /\ UNCHANGED now

\* pending_df.index
pending_index(unverified_df) ==
    { i \in 1..Len(unverified_df) : unverified_df[i].status = "pending" }

\* the buttons "Verify" and "Reject" in the expander of row idx
VerifyOrReject(idx, status) ==
    LET unverified_df == load_unverified_data(unverified)
    IN  /\ idx \in pending_index(unverified_df)
        /\ now + 1 <= MaxClock
        /\ now' = now + 1
        /\ save_unverified_data([unverified_df EXCEPT ![idx].status = status,
                                                      ![idx].verified_date = isoformat(now + 1),
                                                      ![idx].verified_by = ManualVerification])
        /\ last' = [NoOp EXCEPT !.op = IF status = "verified" THEN "verify" ELSE "reject",
                                !.outcome = "saved", !.shown = {idx},
                                !.before_unv = unverified]

NextUnverified ==
    \/ /\ Idle
       /\ \E names_preview \in UploadInputs : AddToUnverifiedList(names_preview)
       /\ UNCHANGED <<excel_cg, excel_ch, urandom, calls, log, mem>>
    \/ /\ Idle
       /\ \E status_filter \in StatusFilters, search_name \in SearchInputs,
             i \in 1..Len(unverified), status \in Statuses, name_edit \in EditorNameEdits :
             SaveChanges(status_filter, search_name, i, status, name_edit)
       /\ UNCHANGED <<excel_cg, excel_ch, urandom, calls, log, mem>>
    \/ /\ Idle
       /\ \E status_filter \in StatusFilters, search_name \in SearchInputs,
             status \in {"verified", "rejected"} :
             BulkMark(status_filter, search_name, status)
       /\ UNCHANGED <<excel_cg, excel_ch, urandom, calls, log, mem>>
    \/ /\ Idle
       /\ \E status_filter \in StatusFilters, search_name \in SearchInputs :
             DeleteAllFiltered(status_filter, search_name)
       /\ UNCHANGED <<excel_cg, excel_ch, urandom, calls, log, mem>>
    \/ /\ Idle
       /\ \E idx \in 1..Len(unverified), status \in {"verified", "rejected"} :
             VerifyOrReject(idx, status)
       /\ UNCHANGED <<excel_cg, excel_ch, urandom, calls, log, mem>>
    \/ Rerun /\ UNCHANGED <<log, unverified, now, mem>>

SpecUnverified == Init /\ [][NextUnverified]_vars

\* ------------------------- two sessions, reads and writes that can fail
\* A script run of a session loads the store (app.py 217) and then runs the
\* handler of the button pressed, on the frames it loaded.  mem[s].run is
\* "none" (no run in progress), "loaded" (cg_df, ch_df loaded, no handler
\* yet), "migrating" (migrate_child_phone_numbers has loaded its own frames)
\* or "done" (the handler has ended); base_cg, base_ch are the sheets the
\* frames in use were read from; entry is the record of the handler of the
\* run.  log holds the sessions whose handlers have run, oldest first.

\* load_data(): the frames of the store, or the empty fallback frames when
\* the read raises
load_data(read_ok) ==
    IF read_ok THEN [cg_df |-> load_caregivers(excel_cg), ch_df |-> load_children(excel_ch)]
               ELSE [cg_df |-> <<>>, ch_df |-> <<>>]

\* save_data when the write can raise: the exception is logged and shown by
\* st.error, not raised again; the file is taken to keep its content
save_data_or_fail(cg_df, ch_df, write_ok) ==
    IF write_ok THEN save_data(cg_df, ch_df) ELSE UNCHANGED <<excel_cg, excel_ch>>

\* what the create handler makes of the frames cg_df, ch_df
create_result(cg_df, ch_df, c_name, c_phone, edited, n) ==
    LET key == stable_key(c_name, c_phone, n)
        new_row == [caregiver_key |-> key, caregiver_name |-> Strip(c_name),
                    phone_number |-> Strip(c_phone)]
    IN  [rejected |-> c_name = <<>> \/ create_missing_child_names(edited),
         key |-> key,
         cg_df |-> WithoutKey(cg_df, key) \o <<new_row>>,
         ch_df |-> create_replace_children(
                       ch_df, key, create_children_rows(edited, key, c_name, c_phone))]

\* what the delete handler makes of the frames cg_df, ch_df
delete_result(cg_df, ch_df, delete_caregiver) ==
    LET caregiver_key == Head(WithName(cg_df, delete_caregiver)).caregiver_key
    IN  [key |-> caregiver_key,
         cg_df |-> delete_caregiver_rows(cg_df, caregiver_key),
         ch_df |-> delete_child_rows(ch_df, caregiver_key)]

SessionCaregiverInputs ==
    { [name |-> <<"a">>, phone |-> <<"1">>], [name |-> <<"b">>, phone |-> <<>>] }
SessionEditorInputs == { <<>>, <<[child_name |-> <<"t">>, child_phone_number |-> <<>>]>> }

\* (variant: the handler reads the store again when it starts)
handler_frames_reloaded(s) == load_data(TRUE)
\* the frames a handler of session s works on: the cg_df, ch_df of its run
handler_frames(s) == [cg_df |-> mem[s].cg_df, ch_df |-> mem[s].ch_df]

\* the handler of session s has run
Handled(s) == Len(log) < MaxRuns /\ log' = Append(log, s)

\* cg_df, ch_df = load_data() at the start of a script run
RunStarts(s, read_ok) ==
    /\ mem[s].run = "none"
    /\ Len(log) < MaxRuns
    /\ mem' = [mem EXCEPT ![s] = [run |-> "loaded", read_ok |-> read_ok,
                                  cg_df |-> load_data(read_ok).cg_df,
                                  ch_df |-> load_data(read_ok).ch_df,
                                  base_cg |-> excel_cg, base_ch |-> excel_ch,
                                  entry |-> NoEntry]]
    /\ UNCHANGED <<excel_cg, excel_ch, urandom, last, calls, log, unverified, now>>

\* the run ends (no button was pressed, st.rerun() or the end of the script)
RunEnds(s) ==
    /\ mem[s].run \in {"loaded", "done"}
    /\ mem' = [mem EXCEPT ![s] = NoRun]
    /\ UNCHANGED <<excel_cg, excel_ch, urandom, last, calls, log, unverified, now>>

\* the create handler in session s
SessionCreate(s, c_name, c_phone, edited, write_ok) ==
    LET f == handler_frames(s)
        res == create_result(f.cg_df, f.ch_df, c_name, c_phone, edited, urandom)
        entry == [NoEntry EXCEPT !.op = "create", !.name = c_name, !.phone = c_phone, !.edited = edited,
                                 !.before_cg = excel_cg, !.before_ch = excel_ch]
    IN  /\ mem[s].run = "loaded"
        /\ Handled(s)
        /\ IF res.rejected
           THEN \* st.error(...); st.stop()
                /\ mem' = [mem EXCEPT ![s].run = "done",
                                      ![s].entry = [entry EXCEPT !.reported = "error"]]
                /\ UNCHANGED <<excel_cg, excel_ch, urandom>>
           ELSE /\ Fits(res.cg_df, res.ch_df)
                /\ DrawsRandom(c_name, c_phone) => urandom < MaxRandom
                /\ urandom' = IF DrawsRandom(c_name, c_phone) THEN urandom + 1 ELSE urandom
                /\ save_data_or_fail(res.cg_df, res.ch_df, write_ok)
                \* st.success(f"Saved caregiver ...") follows save_data
                /\ mem' = [mem EXCEPT ![s].run = "done", ![s].cg_df = res.cg_df,
                                      ![s].ch_df = res.ch_df,
                                      ![s].entry = [entry EXCEPT !.reported = "success",
                                                                 !.saving = TRUE,
                                                                 !.write_ok = write_ok,
                                                                 !.key = res.key]]
        /\ UNCHANGED <<last, calls, unverified, now>>

\* the delete handler in session s
SessionDelete(s, delete_caregiver, write_ok) ==
    LET f == handler_frames(s)
        res == delete_result(f.cg_df, f.ch_df, delete_caregiver)
    IN  /\ mem[s].run = "loaded"
        /\ Handled(s)
        /\ delete_caregiver \in caregiver_options(f.cg_df)
        /\ save_data_or_fail(res.cg_df, res.ch_df, write_ok)
        \* st.success(f"Deleted caregiver ...") follows save_data
        /\ mem' = [mem EXCEPT ![s].run = "done", ![s].cg_df = res.cg_df,
                              ![s].ch_df = res.ch_df,
                              ![s].entry = [NoEntry EXCEPT !.op = "delete",
                                                           !.reported = "success",
                                                           !.saving = TRUE,
                                                           !.write_ok = write_ok,
                                                           !.key = res.key,
                                                           !.name = delete_caregiver,
                                                           !.before_cg = excel_cg,
                                                           !.before_ch = excel_ch]]
        /\ UNCHANGED <<urandom, last, calls, unverified, now>>

\* the migration button in session s: migrate_child_phone_numbers loads its
\* own frames ...
SessionMigrateLoads(s, read_ok) ==
    /\ mem[s].run = "loaded"
    /\ mem' = [mem EXCEPT ![s] = [run |-> "migrating", read_ok |-> read_ok,
                                  cg_df |-> load_data(read_ok).cg_df,
                                  ch_df |-> load_data(read_ok).ch_df,
                                  base_cg |-> excel_cg, base_ch |-> excel_ch,
                                  entry |-> NoEntry]]
    /\ UNCHANGED <<excel_cg, excel_ch, urandom, last, calls, log, unverified, now>>

\* ... and saves them when it updated a row; the caller reports the count
SessionMigrateSaves(s, write_ok) ==
    LET cg_df == mem[s].cg_df
        ch_df == mem[s].ch_df
        count == updated_count(cg_df, ch_df)
        entry == [NoEntry EXCEPT !.op = "migrate",
                                 !.before_cg = excel_cg, !.before_ch = excel_ch]
    IN  /\ mem[s].run = "migrating"
        /\ Handled(s)
        /\ IF count > 0
           THEN /\ save_data_or_fail(cg_df, migrate_rows(cg_df, ch_df), write_ok)
                /\ mem' = [mem EXCEPT ![s].run = "done",
                                      ![s].ch_df = migrate_rows(cg_df, ch_df),
                                      ![s].entry = [entry EXCEPT !.reported = "success",
                                                                 !.saving = TRUE,
                                                                 !.write_ok = write_ok]]
           ELSE /\ mem' = [mem EXCEPT ![s].run = "done",
                                      ![s].entry = [entry EXCEPT !.reported = "info"]]
                /\ UNCHANGED <<excel_cg, excel_ch>>
        /\ UNCHANGED <<urandom, last, calls, unverified, now>>

NextSessions ==
    \/ \E s \in Sessions, read_ok \in BOOLEAN : RunStarts(s, read_ok)
    \/ \E s \in Sessions : RunEnds(s)
    \/ \E s \in Sessions, c \in SessionCaregiverInputs, edited \in SessionEditorInputs,
          write_ok \in BOOLEAN :
          SessionCreate(s, c.name, c.phone, edited, write_ok)
    \/ \E s \in Sessions, write_ok \in BOOLEAN :
          \E delete_caregiver \in caregiver_options(mem[s].cg_df) :
              SessionDelete(s, delete_caregiver, write_ok)
    \/ \E s \in Sessions, read_ok \in BOOLEAN : SessionMigrateLoads(s, read_ok)
    \/ \E s \in Sessions, write_ok \in BOOLEAN : SessionMigrateSaves(s, write_ok)

SpecSessions == Init /\ [][NextSessions]_vars

\* =============================================================== claims
\* what a claim calls the normalized identity of (name, phone): the trimmed,
\* lower-cased name and the digits of the phone
NormalizedName(name) == Lower(Strip(name))
NormalizedPhone(phone) == SelectSeq(phone, IsDigit)
BlankIdentity(name, phone) == NormalizedName(name) = <<>> /\ NormalizedPhone(phone) = <<>>
SameNormalized(c, d) ==
    /\ NormalizedName(c.name) = NormalizedName(d.name)
    /\ NormalizedPhone(c.phone) = NormalizedPhone(d.phone)

\* the text of an editor cell: nothing for a cell never filled in
CellText(x) == IF x = None THEN <<>> ELSE x
HasName(r) == Strip(CellText(r.child_name)) # <<>>
\* the submitted rows that have a name
SubmittedNamed(edited) == SelectSeq(edited, HasName)
BlankCell(x) == Strip(CellText(x)) = <<>>

CaregiversUnder(k) == WithKey(excel_cg, k)
ChildrenUnder(k) == WithKey(excel_ch, k)
Saved(op) == last.op = op /\ last.outcome = "saved"

\* C1: the caregivers table holds at most one row per caregiver_key.
C1_OneRowPerKey ==
    \A i, j \in 1..Len(excel_cg) :
        excel_cg[i].caregiver_key = excel_cg[j].caregiver_key => i = j

\* C2: every row of the children table has the caregiver_key of some row of
\* the caregivers table.
C2_NoOrphans ==
    \A i \in 1..Len(excel_ch) :
        \E j \in 1..Len(excel_cg) : excel_cg[j].caregiver_key = excel_ch[i].caregiver_key

\* children are stored under the new key of a caregiver whose edit changed
\* the key, next to another caregiver and its children
C2_Witness ==
    /\ Saved("edit")
    /\ last.key # last.old_key
    /\ ChildrenUnder(last.key) # <<>>
    /\ \E i \in 1..Len(excel_ch) : excel_ch[i].caregiver_key # last.key

\* C3: after a create-form save for key k the child rows under k are the
\* submitted rows with a non-empty trimmed name, one stored row per submitted
\* row and in their order; nothing stored under k before remains.
C3_CreateReplacesChildren ==
    Saved("create") =>
        LET stored == ChildrenUnder(last.key)
            sub == SubmittedNamed(last.edited)
        IN  /\ Len(stored) = Len(sub)
            /\ \A i \in 1..Len(sub) : stored[i].child_name = Strip(CellText(sub[i].child_name))

\* a caregiver that had children was saved again with no named child row and
\* has no child rows left
C3_Witness ==
    /\ Saved("create")
    /\ last.had > 0
    /\ SubmittedNamed(last.edited) = <<>>
    /\ ChildrenUnder(last.key) = <<>>
    /\ CaregiversUnder(last.key) # <<>>

\* the edit left the name and the phone as they are stored
EditUnchanged == last.name = last.old_name /\ last.phone = WriteCell(last.old_phone)

\* C4: after an edit-form update that leaves name and phone unchanged the
\* child rows under the key are the submitted rows with a name, each stored
\* once: the rows stored before do not remain next to them.
C4_EditReplacesChildren ==
    (Saved("edit") /\ EditUnchanged) =>
        LET stored == ChildrenUnder(last.key)
            sub == SubmittedNamed(last.edited)
        IN  /\ Len(stored) = Len(sub)
            /\ \A i \in 1..Len(sub) : stored[i].child_name = Strip(CellText(sub[i].child_name))

\* C5: after an edit-form update that changed the key, no caregiver row and no
\* child row is left under the old key, the one caregiver row under the new
\* key is the edited row, and every submitted child with a name is stored
\* under the new key.
C5_RekeyMovesRows ==
    (Saved("edit") /\ last.key # last.old_key) =>
        /\ CaregiversUnder(last.old_key) = <<>>
        /\ ChildrenUnder(last.old_key) = <<>>
        /\ CaregiversUnder(last.key) =
               <<[caregiver_key |-> last.key, caregiver_name |-> Strip(last.name),
                  phone_number |-> Strip(last.phone)]>>
        /\ \A i \in 1..Len(last.edited) :
               HasName(last.edited[i]) =>
                   \E j \in 1..Len(excel_ch) :
                       /\ excel_ch[j].caregiver_key = last.key
                       /\ excel_ch[j].child_name = Strip(CellText(last.edited[i].child_name))

\* C6: after the delete of the caregiver of key k no row of the caregivers
\* table and no row of the children table has caregiver_key k.
C6_DeleteRemovesBoth ==
    Saved("delete") => CaregiversUnder(last.key) = <<>> /\ ChildrenUnder(last.key) = <<>>

\* a caregiver that had children was deleted while other rows stay
C6_Witness ==
    /\ Saved("delete")
    /\ last.had > 0
    /\ excel_cg # <<>>
    /\ excel_ch # <<>>

\* C10: on a create-form save a child row whose submitted phone is empty,
\* blank or missing is stored with the caregiver's trimmed phone of that
\* save, and a child row with a phone keeps its own trimmed phone.
C10_CreateChildPhone ==
    Saved("create") =>
        LET stored == ChildrenUnder(last.key)
            sub == SubmittedNamed(last.edited)
        IN  \A i \in 1..Len(sub) :
                i <= Len(stored) =>
                    stored[i].child_phone_number =
                        IF BlankCell(sub[i].child_phone_number)
                        THEN Strip(last.phone)
                        ELSE Strip(sub[i].child_phone_number)

\* a caregiver with a phone was saved with a child whose phone was blank and
\* a child with its own phone
C10_Witness ==
    /\ Saved("create")
    /\ Strip(last.phone) # <<>>
    /\ \E i, j \in 1..Len(last.edited) :
           /\ HasName(last.edited[i]) /\ BlankCell(last.edited[i].child_phone_number)
           /\ HasName(last.edited[j]) /\ ~BlankCell(last.edited[j].child_phone_number)
    /\ Len(ChildrenUnder(last.key)) = 2

\* C7: two separate calls of stable_key with the same (name, phone) whose
\* normalized name or normalized phone is non-empty return the same key,
\* names made of '|' included.
C7_Deterministic ==
    \A i, j \in 1..Len(calls) :
        (/\ calls[i].name = calls[j].name
         /\ calls[i].phone = calls[j].phone
         /\ ~BlankIdentity(calls[i].name, calls[i].phone))
        => calls[i].key = calls[j].key

\* C8: on inputs of non-blank normalized identity the key depends on the
\* normalized pair only: equal normalized pairs give equal keys, different
\* normalized pairs give different keys.
C8_NormalizedPairOnly ==
    \A i, j \in 1..Len(calls) :
        (~BlankIdentity(calls[i].name, calls[i].phone) /\ ~BlankIdentity(calls[j].name, calls[j].phone))
        => (SameNormalized(calls[i], calls[j]) <=> calls[i].key = calls[j].key)

\* C9: two separate calls of stable_key whose normalized name and normalized
\* phone are both empty return different keys.
C9_BlankKeysDiffer ==
    \A i, j \in 1..Len(calls) :
        (/\ i # j
         /\ BlankIdentity(calls[i].name, calls[i].phone)
         /\ BlankIdentity(calls[j].name, calls[j].phone))
        => calls[i].key # calls[j].key

\* two calls with a blank identity were made, one of them with a phone that
\* has characters but no digits
C9_Witness ==
    \E i, j \in 1..Len(calls) :
        /\ i # j
        /\ BlankIdentity(calls[i].name, calls[i].phone)
        /\ BlankIdentity(calls[j].name, calls[j].phone)
        /\ calls[i].phone # <<>>
        /\ calls[i].key # calls[j].key

\* the child rows the last save appended for the rows of the editor that have
\* a name: the tail of the children sheet
AppendedRows ==
    LET n == Len(SubmittedNamed(last.edited))
    IN  SubSeq(excel_ch, Len(excel_ch) - n + 1, Len(excel_ch))

\* C11: after an edit-form update every child row re-saved from a submitted
\* row whose phone is blank is stored with the caregiver's trimmed phone of
\* that edit.
C11_EditChildPhone ==
    Saved("edit") =>
        LET sub == SubmittedNamed(last.edited)
        IN  \A i \in 1..Len(sub) :
                BlankCell(sub[i].child_phone_number) =>
                    AppendedRows[i].child_phone_number = Strip(last.phone)

\* C16: a create-form or edit-form submission with a child row that has no
\* name but a phone is rejected: no such submission is saved.
C16_UnnamedRowRejected ==
    (Saved("create") \/ Saved("edit")) =>
        \A i \in 1..Len(last.edited) :
            ~(~HasName(last.edited[i]) /\ ~BlankCell(last.edited[i].child_phone_number))

\* ---- the scenario of C12, read off the log of a session
\* the child of the scenario as the first save submitted it: phone blank
TomSubmitted == <<[child_name |-> <<"t">>, child_phone_number |-> <<>>]>>
\* the first save: the create form, a caregiver with a phone and the child
FirstSave(r) ==
    /\ r.op = "create" /\ r.outcome = "saved"
    /\ Strip(r.phone) # <<>>
    /\ r.edited = TomSubmitted
\* the re-save: a saved create-form or edit-form submission of the same name
\* with another phone
ReSave(first, r) ==
    /\ r.op \in {"create", "edit"} /\ r.outcome = "saved"
    /\ r.name = first.name
    /\ Strip(r.phone) # <<>> /\ r.phone # first.phone
\* the re-save through the edit form with the children editor as it opened
ReSaveAsShown(first, r) ==
    /\ ReSave(first, r)
    /\ r.op = "edit"
    /\ r.edited = <<[child_name |-> <<"t">>, child_phone_number |-> Strip(first.phone)]>>
\* the phones stored for the child of the scenario in a children sheet
TomPhones(sheet) ==
    {sheet[i].child_phone_number : i \in {j \in 1..Len(sheet) : sheet[j].child_name = <<"t">>}}

\* C12 (as stated): after the first save, the re-save with another phone and
\* a migration, no row is left under the old key, a caregiver row is under
\* the new key, the child's phone was "" before the migration and is the new
\* caregiver phone after it.
C12_Scenario ==
    (/\ Len(log) = 3
     /\ FirstSave(log[1]) /\ ReSave(log[1], log[2]) /\ log[3].op = "migrate")
    => /\ CaregiversUnder(log[1].key) = <<>>
       /\ ChildrenUnder(log[1].key) = <<>>
       /\ CaregiversUnder(log[2].key) # <<>>
       /\ TomPhones(log[3].before_ch) = {<<>>}
       /\ TomPhones(excel_ch) = {Strip(log[2].phone)}

\* C12 (amended): after the first save, the re-save through the edit form
\* with the children editor as it opened and a migration, no row is left
\* under the old key, one caregiver row is under the new key, the child is
\* stored under the new key with the caregiver phone of the first save, and
\* the migration changed nothing and returned 0.
C12_ScenarioAsCoded ==
    (/\ Len(log) = 3
     /\ FirstSave(log[1]) /\ ReSaveAsShown(log[1], log[2]) /\ log[3].op = "migrate")
    => /\ CaregiversUnder(log[1].key) = <<>>
       /\ ChildrenUnder(log[1].key) = <<>>
       /\ Len(CaregiversUnder(log[2].key)) = 1
       /\ Len(ChildrenUnder(log[2].key)) = 1
       /\ TomPhones(log[3].before_ch) = {Strip(log[1].phone)}
       /\ TomPhones(excel_ch) = {Strip(log[1].phone)}
       /\ log[3].count = 0
       /\ excel_ch = log[3].before_ch

\* the three steps of the scenario were taken, the re-save through the edit
\* form, and the child is stored under the new key
C12_Witness ==
    /\ Len(log) = 3
    /\ FirstSave(log[1]) /\ ReSaveAsShown(log[1], log[2]) /\ log[3].op = "migrate"
    /\ log[2].key # log[1].key
    /\ ChildrenUnder(log[2].key) # <<>>

\* C13: of two migrations run in a row the second one returns 0 and leaves
\* the store as the first one left it.
C13_MigrateIdempotent ==
    LET n == Len(log)
    IN  (n >= 2 /\ log[n - 1].op = "migrate" /\ log[n].op = "migrate")
        => /\ log[n].count = 0
           /\ excel_cg = log[n].before_cg
           /\ excel_ch = log[n].before_ch

\* C14: a migration leaves the caregivers sheet and every child field but
\* the phone as they were; it changes the phone of a child row only if that
\* phone was blank and a caregiver row of the child's key has a non-blank
\* phone, and then to that phone; the count it returns is the number of
\* child rows it changed.
C14_MigrateFrame ==
    last.op = "migrate" =>
        LET b_cg == last.before_cg
            b_ch == last.before_ch
            Changed(i) == excel_ch[i] # b_ch[i]
        IN  /\ excel_cg = b_cg
            /\ Len(excel_ch) = Len(b_ch)
            /\ \A i \in 1..Len(b_ch) :
                   /\ excel_ch[i] = [b_ch[i] EXCEPT !.child_phone_number =
                                                       excel_ch[i].child_phone_number]
                   /\ Changed(i) =>
                          /\ Strip(b_ch[i].child_phone_number) = <<>>
                          /\ \E j \in 1..Len(b_cg) :
                                 /\ b_cg[j].caregiver_key = b_ch[i].caregiver_key
                                 /\ Strip(b_cg[j].phone_number) # <<>>
                                 /\ excel_ch[i].child_phone_number = Strip(b_cg[j].phone_number)
            /\ last.count = Cardinality({i \in 1..Len(b_ch) : Changed(i)})

\* C15: no row of the children table, as load_data returns it, has a
\* child_name that is missing or empty after trimming.
C15_NoUnnamedChild ==
    LET ch_df == load_children(excel_ch)
    IN  \A i \in 1..Len(ch_df) :
            ~IsNa(ch_df[i].child_name) /\ Strip(ch_df[i].child_name) # <<>>

\* C17: after a child import every imported row with a child name whose
\* caregiver_name is in the caregivers table is saved as a child row of that
\* caregiver, whatever rows of the same import found no caregiver.
C17_LookupMissSkipped ==
    (last.op = "import" /\ last.kind = "children") =>
        LET cg_df == load_caregivers(excel_cg)
            Name(i) == Field(last.rows[i], "child_name", last.columns)
            Found(i) == WithName(cg_df, Field(last.rows[i], "caregiver_name", last.columns))
        IN  /\ last.outcome = "saved"
            /\ \A i \in 1..Len(last.rows) :
                   (Name(i) # <<>> /\ Found(i) # <<>>) =>
                       \E j \in 1..Len(excel_ch) :
                           /\ excel_ch[j].caregiver_key = Head(Found(i)).caregiver_key
                           /\ excel_ch[j].child_name = Name(i)

\* ---- the unverified names, before and after the handler of the current run
UnvBefore == load_unverified_data(last.before_unv)
UnvAfter == load_unverified_data(unverified)
StatusActions == {"verify", "reject", "bulk_verified", "bulk_rejected", "save_changes"}

\* C18: verified and rejected are terminal: Verify, Reject, the bulk marks and
\* "Save Changes" leave the status of every record that was verified or
\* rejected when the handler started as it was.
C18_TerminalStatuses ==
    last.op \in StatusActions =>
        \A k \in 1..Len(UnvBefore) :
            UnvBefore[k].status \in {"verified", "rejected"} =>
                UnvAfter[k].status = UnvBefore[k].status

\* the first half of C19: Verify on a pending record makes it verified, with
\* a verified_date and a verifier label
VerifySetsFields ==
    last.op = "verify" =>
        \A k \in last.shown :
            /\ UnvBefore[k].status = "pending"
            /\ UnvAfter[k].status = "verified"
            /\ ~IsNa(UnvAfter[k].verified_date)
            /\ ~IsNa(UnvAfter[k].verified_by)

\* the second half of C19: a verify action that reaches a record already
\* verified leaves that record as it was
VerifyAgainIsNoOp ==
    last.op \in {"verify", "bulk_verified"} =>
        \A k \in last.shown :
            UnvBefore[k].status = "verified" => UnvAfter[k] = UnvBefore[k]

\* C19: verifying a pending record sets status verified, a non-null
\* verified_date and a verifier label; a verify action applied again to a
\* verified record (verify tab or bulk verify) changes nothing in the record.
C19_VerifyOnce == VerifySetsFields /\ VerifyAgainIsNoOp

\* the records an upload appended
Appended == { j \in 1..Len(UnvAfter) : j > Len(UnvBefore) }

\* C20: an upload adds only trimmed candidates, none whose lower-cased form is
\* the lower-cased name of a record that was already there (whatever its
\* status); every added record is pending with null verified_date and
\* verified_by; the records that were there are unchanged; the reported count
\* is the number of records appended.
C20_BulkUpload ==
    last.op = "upload" =>
        /\ Len(UnvAfter) >= Len(UnvBefore)
        /\ SubSeq(UnvAfter, 1, Len(UnvBefore)) = UnvBefore
        /\ last.count = Len(UnvAfter) - Len(UnvBefore)
        /\ \A j \in Appended :
            /\ \E n \in 1..Len(last.rows) : UnvAfter[j].name = Strip(Str(last.rows[n]))
            /\ \A i \in 1..Len(UnvBefore) :
                ~IsNa(UnvBefore[i].name) =>
                    Lower(UnvBefore[i].name) # Lower(UnvAfter[j].name)
            /\ UnvAfter[j].status = "pending"
            /\ IsNa(UnvAfter[j].verified_date)
            /\ IsNa(UnvAfter[j].verified_by)

\* an upload that skipped a candidate whose lower-cased form is the name of a
\* verified or rejected record in another case, and appended another one
C20_Witness ==
    /\ last.op = "upload"
    /\ last.outcome = "saved"
    /\ Appended # {}
    /\ \E n \in 1..Len(last.rows), i \in 1..Len(UnvBefore) :
        /\ UnvBefore[i].status # "pending"
        /\ ~IsNa(UnvBefore[i].name)
        /\ UnvBefore[i].name # Strip(Str(last.rows[n]))
        /\ Lower(UnvBefore[i].name) = Lower(Strip(Str(last.rows[n])))
        /\ \A j \in Appended : UnvAfter[j].name # Strip(Str(last.rows[n]))

\* C21: an upload deduplicates within its batch: no upload appends two
\* records whose trimmed lower-cased names are equal, and the batch
\* ["A", "a ", "b"] uploaded into an empty collection appends exactly 2.
C21_BatchDeduplicated ==
    last.op = "upload" =>
        /\ \A i, j \in Appended :
            Lower(Strip(UnvAfter[i].name)) = Lower(Strip(UnvAfter[j].name)) => i = j
        /\ (UnvBefore = <<>> /\ last.rows = << <<"A">>, <<"a", " ">>, <<"b">> >>)
            => Len(UnvAfter) = 2

\* C29: each unverified-name record is pending if and only if its
\* verified_date and verified_by are null.
C29_DecidedIffStamped ==
    \A k \in 1..Len(UnvAfter) :
        UnvAfter[k].status = "pending"
            <=> (IsNa(UnvAfter[k].verified_date) /\ IsNa(UnvAfter[k].verified_by))

\* C24: every caregiver row whose stored name or phone is not blank after
\* normalization has the key stable_key gives for the stored name and phone.
C24_KeysRederivable ==
    \A i \in 1..Len(excel_cg) :
        ~BlankIdentity(excel_cg[i].caregiver_name, excel_cg[i].phone_number) =>
            excel_cg[i].caregiver_key
                = stable_key(excel_cg[i].caregiver_name, excel_cg[i].phone_number, urandom)

\* C25: no caregiver row has a name that is empty after trimming, and a
\* create or edit submission whose caregiver name is empty or whitespace
\* only is rejected.
C25_NamedCaregivers ==
    /\ \A i \in 1..Len(excel_cg) : Strip(excel_cg[i].caregiver_name) # <<>>
    /\ (last.op \in {"create", "edit"} /\ Strip(last.name) = <<>>) => last.outcome = "rejected"

\* C26: an edit-form update of a caregiver without child rows, submitted
\* with a caregiver name, is saved: the caregiver row carries the edited name
\* and phone.
C26_EditWithoutChildren ==
    (/\ last.op = "edit"
     /\ last.name # <<>>
     /\ \/ last.outcome = "saved" /\ last.had = 0
        \/ last.outcome # "saved" /\ ChildrenUnder(last.old_key) = <<>>)
    => /\ last.outcome = "saved"
       /\ \E i \in 1..Len(excel_cg) :
            /\ excel_cg[i].caregiver_key = last.key
            /\ excel_cg[i].caregiver_name = Strip(last.name)
            /\ excel_cg[i].phone_number = Strip(last.phone)

\* C27: the Excel child import does what the CSV child import does: it ends
\* without error, and the tables it leaves are those the CSV branch leaves
\* for the same rows (a further CSV import of these rows changes nothing).
C27_ExcelAsCsv ==
    (last.op = "import" /\ last.kind = "children" /\ last.fmt = "xlsx") =>
        /\ last.outcome = "saved"
        /\ excel_ch = write_children(
               import_child_rows(last.rows, last.columns, load_caregivers(excel_cg),
                                 load_children(excel_ch), "csv").ch_df)

\* C30: a table with a child_name and a caregiver_name column and no
\* caregiver_key column is processed as child data; a table with the columns
\* of the caregivers export is accepted as caregiver data.
C30_Classification ==
    last.op = "import" =>
        /\ ({"child_name", "caregiver_name"} \subseteq last.columns
                /\ "caregiver_key" \notin last.columns)
            => last.kind = "children"
        /\ last.columns = {"caregiver_key", "caregiver_name", "phone_number"}
            => (last.kind = "caregivers" /\ last.outcome = "saved")

\* ---- the sessions: the handler that ran last, and the one before it
LatestHandled(s) == log # <<>> /\ log[Len(log)] = s /\ mem[s].run = "done"
HandledBefore(s) == Len(log) >= 2 /\ log[Len(log) - 1] = s /\ mem[s].run = "done"
Wrote(s) == mem[s].entry.saving /\ mem[s].entry.write_ok
RowsOf(sheet) == {sheet[i] : i \in 1..Len(sheet)}

\* C22: when the write of the store fails during a save, the handler does
\* not report success, and the stored tables are those found before the save.
C22_WriteFailureReported ==
    \A s \in Sessions :
        (LatestHandled(s) /\ mem[s].entry.saving /\ ~mem[s].entry.write_ok) =>
            /\ mem[s].entry.reported # "success"
            /\ excel_cg = mem[s].entry.before_cg
            /\ excel_ch = mem[s].entry.before_ch

\* what the handler recorded in entry alone makes of the sheets base_cg, base_ch
AloneOn(entry, base_cg, base_ch) ==
    LET cg_df == load_caregivers(base_cg)
        ch_df == load_children(base_ch)
    IN  IF entry.op = "create"
        THEN LET res == create_result(cg_df, ch_df, entry.name, entry.phone, entry.edited, 0)
             IN  [cg |-> write_caregivers(res.cg_df), ch |-> write_children(res.ch_df)]
        ELSE IF entry.op = "delete"
        THEN LET res == delete_result(cg_df, ch_df, entry.name)
             IN  [cg |-> write_caregivers(res.cg_df), ch |-> write_children(res.ch_df)]
        ELSE [cg |-> write_caregivers(cg_df),
              ch |-> write_children(migrate_rows(cg_df, ch_df))]

\* two sessions read the same snapshot and both saved, s first and t last
BothSaved(s, t) ==
    /\ s # t
    /\ HandledBefore(s) /\ LatestHandled(t)
    /\ Wrote(s) /\ Wrote(t)
    /\ mem[s].read_ok /\ mem[t].read_ok
    /\ mem[s].base_cg = mem[t].base_cg
    /\ mem[s].base_ch = mem[t].base_ch

\* C23: when two sessions loaded the same snapshot and both saved, the store
\* holds the in-memory tables of the session that saved last, and these are
\* what its operation alone makes of the snapshot: the change of the session
\* that saved first is not in the store.
C23_LastWriterWins ==
    \A s, t \in Sessions :
        BothSaved(s, t) =>
            /\ excel_cg = write_caregivers(mem[t].cg_df)
            /\ excel_ch = write_children(mem[t].ch_df)
            /\ excel_cg = AloneOn(mem[t].entry, mem[t].base_cg, mem[t].base_ch).cg
            /\ excel_ch = AloneOn(mem[t].entry, mem[t].base_cg, mem[t].base_ch).ch

\* both saved, and a caregiver row the first session added to the snapshot is
\* not in the store
C23_Witness ==
    \E s, t \in Sessions :
        /\ BothSaved(s, t)
        /\ \E r \in RowsOf(write_caregivers(mem[s].cg_df)) :
            r \notin RowsOf(mem[s].base_cg) /\ r \notin RowsOf(excel_cg)

\* C28: a session whose load_data failed and that then saves a create or a
\* delete loses no stored row: every caregiver and child row that was in the
\* store and is not under the key of the operation is in the store afterwards.
C28_FailedReadKeepsRows ==
    \A s \in Sessions :
        (/\ LatestHandled(s)
         /\ ~mem[s].read_ok
         /\ mem[s].entry.op \in {"create", "delete"}
         /\ Wrote(s)) =>
            /\ \A r \in RowsOf(mem[s].entry.before_cg) :
                r.caregiver_key # mem[s].entry.key => r \in RowsOf(excel_cg)
            /\ \A r \in RowsOf(mem[s].entry.before_ch) :
                r.caregiver_key # mem[s].entry.key => r \in RowsOf(excel_ch)

====
